---- MODULE Spec2Model ----
(***************************************************************************)
(* Model of moviebot (src/bot.py): a Telegram bot that maps short codes to *)
(* stored movies, gated by channel membership.                             *)
(*                                                                         *)
(* Message texts are sequences of code points, so that str.strip(),        *)
(* CODE_RE and str.startswith are computed character by character.         *)
(* dp.start_polling runs the handler of each update as a task of its own,  *)
(* so a handler is a sequence of steps, one action each, that ends at the  *)
(* awaits where the event loop may run another task: get_chat_member in    *)
(* require_subscribed and is_subscribed, the statements of the database    *)
(* and the calls that send a reply.  The handler of a message is chosen by *)
(* the filters when the update is dispatched (task_start); what it reads   *)
(* and writes it reads and writes in the step that follows the await.  A   *)
(* statement of the database takes effect in a step of its own, before the *)
(* step in which its await returns to the handler.                         *)
(* The calls on the FSM context (MemoryStorage) do not suspend.            *)
(* Calls to the Telegram API that send something are recorded in `out`,    *)
(* the event just handled in `ev`.  Sending a reply is taken to succeed,   *)
(* except answer_video (send_movie catches its failure); the database      *)
(* may fail on upsert_movie.  The column created_at is not modelled: no    *)
(* query of the program reads it.                                          *)
(***************************************************************************)
EXTENDS Integers, Sequences, FiniteSets

(***************************************************************************)
(* Texts.                                                                  *)
(***************************************************************************)
\* the characters that str.strip() and str.split() take for whitespace
\* (str.isspace()): the ASCII ones, NEL, NBSP, and the Unicode spaces U+1680,
\* U+2000..U+200A, U+2028, U+2029, U+202F, U+205F, U+3000
Whitespace ==
    {9, 10, 11, 12, 13, 28, 29, 30, 31, 32, 133, 160, 5760}
        \cup (8192..8202) \cup {8232, 8233, 8239, 8287, 12288}

\* [A-Za-z0-9_-]
CodeChars == (65..90) \cup (97..122) \cup (48..57) \cup {95, 45}

\* {1,32}
MinCodeLen == 1
MaxCodeLen == 32

RECURSIVE LStrip(_)
LStrip(s) == IF s # <<>> /\ Head(s) \in Whitespace THEN LStrip(Tail(s)) ELSE s

RECURSIVE RStrip(_)
RStrip(s) ==
    IF s # <<>> /\ s[Len(s)] \in Whitespace
    THEN RStrip(SubSeq(s, 1, Len(s) - 1))
    ELSE s

\* Strip with the right end left as it is
Strip_left(s) == LStrip(s)

\* Strip that removes nothing
Strip_none(s) == s

\* str.strip()
Strip(s) == RStrip(LStrip(s))

\* str.startswith(p)
StartsWith(s, p) == Len(s) >= Len(p) /\ SubSeq(s, 1, Len(p)) = p

\* CodeBody without the upper bound of the length
CodeBody_unbounded(s) ==
    /\ Len(s) >= MinCodeLen
    /\ \A i \in 1..Len(s) : s[i] \in CodeChars

\* the body of the pattern: [A-Za-z0-9_-]{1,32}
CodeBody(s) ==
    /\ Len(s) >= MinCodeLen
    /\ Len(s) <= MaxCodeLen
    /\ \A i \in 1..Len(s) : s[i] \in CodeChars

\* CODE_RE.match(s): ^ body $, where Python's $ also matches just before a
\* newline that ends the string
CODE_RE(s) ==
    \/ CodeBody(s)
    \/ /\ s # <<>>
       /\ s[Len(s)] = 10
       /\ CodeBody(SubSeq(s, 1, Len(s) - 1))

\* "http://" and "https://"
HttpPrefix == <<104, 116, 116, 112, 58, 47, 47>>
HttpsPrefix == <<104, 116, 116, 112, 115, 58, 47, 47>>

\* IsLink that takes every text that is not empty for a link
IsLink_any(text) == text # <<>>

\* text.startswith("http://") or text.startswith("https://")
IsLink(text) == StartsWith(text, HttpPrefix) \/ StartsWith(text, HttpsPrefix)

\* the first whitespace-separated word of the text, text.split(maxsplit=1)[0], is w
FirstWordIs(s, w) ==
    /\ StartsWith(LStrip(s), w)
    /\ Len(LStrip(s)) > Len(w) => LStrip(s)[Len(w) + 1] \in Whitespace

\* "/start" and "/kino"
StartCommand == <<47, 115, 116, 97, 114, 116>>
KinoCommand == <<47, 107, 105, 110, 111>>


(***************************************************************************)
(* Configuration: CHANNEL_ID and its cast.                                 *)
(***************************************************************************)
\* the zeros of the decimal digits of Unicode (category Nd): each is followed
\* by its digits 1 to 9
DigitZeros ==
    { 48, 1632, 1776, 1984, 2406, 2534, 2662, 2790, 2918, 3046, 3174, 3302,
      3430, 3558, 3664, 3792, 3872, 4160, 4240, 6112, 6160, 6470, 6608, 6784,
      6800, 6992, 7088, 7232, 7248, 42528, 43216, 43264, 43472, 43504, 43600,
      44016, 65296, 66720, 68912, 69734, 69872, 69942, 70096, 70384, 70736,
      70864, 71248, 71360, 71472, 71904, 72016, 72784, 73040, 73120, 92768,
      92864, 93008, 120782, 120792, 120802, 120812, 120822, 123200, 123632,
      125264, 130032 }

\* a decimal digit, as int() takes it
IsDigit(c) == \E z \in DigitZeros : c \in z..(z + 9)

\* the value of a decimal digit
DigitOf(c) == c - (CHOOSE z \in DigitZeros : c \in z..(z + 9))

\* the whitespace int() skips around a literal: that of str.strip() without
\* the separators U+001C..U+001F
IntSpace == Whitespace \ (28..31)

RECURSIVE IntLTrim(_)
IntLTrim(s) == IF s # <<>> /\ Head(s) \in IntSpace THEN IntLTrim(Tail(s)) ELSE s

RECURSIVE IntRTrim(_)
IntRTrim(s) ==
    IF s # <<>> /\ s[Len(s)] \in IntSpace
    THEN IntRTrim(SubSeq(s, 1, Len(s) - 1))
    ELSE s

IntTrim(s) == IntRTrim(IntLTrim(s))

\* a literal without its sign ("+" or "-")
Unsigned(s) == IF s # <<>> /\ s[1] \in {43, 45} THEN Tail(s) ELSE s

\* sys.get_int_max_str_digits(): int() refuses a text of more digits
MaxStrDigits == 4300

\* decimal digits, with single "_" between digits only, and no more digits
\* than int() converts
DigitGroups(d) ==
    /\ d # <<>>
    /\ Cardinality({i \in 1..Len(d) : d[i] # 95}) <= MaxStrDigits
    /\ \A i \in 1..Len(d) : IsDigit(d[i]) \/ d[i] = 95
    /\ IsDigit(d[1])
    /\ IsDigit(d[Len(d)])
    /\ \A i \in 1..(Len(d) - 1) : ~(d[i] = 95 /\ d[i + 1] = 95)

\* IntLiteral that takes no sign
IntLiteral_unsigned(s) == DigitGroups(IntTrim(s))

\* int(s) succeeds: whitespace around, an optional sign, and at most
\* MaxStrDigits decimal digits with single underscores between them
IntLiteral(s) == DigitGroups(Unsigned(IntTrim(s)))

RECURSIVE DigitsValue(_)
DigitsValue(d) ==
    IF d = <<>> THEN 0
    ELSE IF d[Len(d)] = 95 THEN DigitsValue(SubSeq(d, 1, Len(d) - 1))
    ELSE DigitsValue(SubSeq(d, 1, Len(d) - 1)) * 10 + DigitOf(d[Len(d)])

\* int(s), for s that IntLiteral accepts
IntValue(s) ==
    IF IntTrim(s)[1] = 45
    THEN 0 - DigitsValue(Unsigned(IntTrim(s)))
    ELSE DigitsValue(Unsigned(IntTrim(s)))

\* try: int(CHANNEL_ID) except ValueError: CHANNEL_ID
CHANNEL_ID_CAST(cfg) ==
    IF IntLiteral(cfg)
    THEN [isInt |-> TRUE, int |-> IntValue(cfg), str |-> <<>>]
    ELSE [isInt |-> FALSE, int |-> 0, str |-> cfg]

(***************************************************************************)
(* The inputs drawn by the specifications.                                 *)
(***************************************************************************)
\* the number of characters that pad a padded text: blanks (U+0020) or EM
\* SPACEs (U+2003)
MaxPad == 1
Pad == [i \in 1..MaxPad |-> 32]
PadWide == [i \in 1..MaxPad |-> 8195]

TextSpace == Pad \o <<12288>>                        \* whitespace only
TextA1 == <<65, 49>>                                 \* "A1"
TextPaddedA1 == Pad \o TextA1 \o PadWide             \* " A1\u2003"
TextPaddedLowerA1 == PadWide \o <<97, 49>> \o Pad    \* "\u2003a1 "
TextLong == [i \in 1..(MaxCodeLen + 1) |-> 97]       \* "aaa...a", one letter too long
TextHttp == HttpPrefix \o <<120>>                    \* "http://x"
TextHttps == HttpsPrefix \o <<120>>                  \* "https://x"
TextPaddedHttps == PadWide \o TextHttps              \* "\u2003https://x"
TextHttpsPadded == TextHttps \o Pad                  \* "https://x "

\* Spec: two codes that differ in case only
Texts ==
    { TextSpace, TextA1, TextPaddedLowerA1, StartCommand, KinoCommand }

\* SpecCode: one code, plain and padded, and texts that are no code
CodeTexts ==
    { TextSpace, TextA1, TextPaddedA1, TextLong, StartCommand, KinoCommand }

\* SpecWizard: one code, a text of whitespace, and one link, padded on the
\* left or on the right
WizardTexts ==
    { TextSpace, TextA1, TextPaddedHttps, TextHttpsPadded, StartCommand, KinoCommand }

FileIds == { <<86>> }                                \* "V"

TextMessage(t) == [hasText |-> TRUE, text |-> t, hasVideo |-> FALSE, file_id |-> <<>>]
VideoMessage(f) == [hasText |-> FALSE, text |-> <<>>, hasVideo |-> TRUE, file_id |-> f]
\* a message with neither text nor video (a sticker, a photo)
OtherMessage == [hasText |-> FALSE, text |-> <<>>, hasVideo |-> FALSE, file_id |-> <<>>]
NoMessage == OtherMessage

\* the texts, and a video
MessagesOf(texts) == {TextMessage(t) : t \in texts} \cup {VideoMessage(f) : f \in FileIds}

Messages == MessagesOf(Texts)
CodeMessages == MessagesOf(CodeTexts)
WizardMessages == MessagesOf(WizardTexts)
\* SpecStore: one code, plain and padded, a link, and two videos
StoreTexts == { TextA1, TextPaddedA1, TextHttp, KinoCommand }
StoreFileIds == { <<86>>, <<87>> }                   \* "V" and "W"
StoreMessages ==
    {TextMessage(t) : t \in StoreTexts} \cup {VideoMessage(f) : f \in StoreFileIds}
\* the messages drawn without from_user
AnonymousMessages == {TextMessage(StartCommand), TextMessage(TextA1)}

\* the users that talk to the bot; NoUser is a message without from_user
Users == {1}
NoUser == 0

\* what bot.get_chat_member does: it raises, or returns a member with a status
Status(s, m) == [raises |-> FALSE, status |-> s, is_member |-> m]
Failure == [raises |-> TRUE, status |-> "", is_member |-> FALSE]
NoOutcome == [raises |-> FALSE, status |-> "", is_member |-> FALSE]

AllOutcomes ==
    { Status("creator", FALSE), Status("administrator", FALSE), Status("member", FALSE),
      Status("restricted", TRUE), Status("restricted", FALSE), Status("left", FALSE),
      Status("kicked", FALSE), Status("unknown", FALSE), Failure }

Outcomes == { Status("member", FALSE), Status("left", FALSE) }

\* SpecGate: the two commands and one code, a video, and a message with neither
GateMessages == MessagesOf({TextA1, StartCommand, KinoCommand}) \cup {OtherMessage}

\* "111...1", one digit more than int() converts
ConfigLong == [i \in 1..(MaxStrDigits + 1) |-> 49]

\* CHANNEL_ID as the environment has it: "-1001", "-1002", "+7", "1_0",
\* "\u0667" (ARABIC-INDIC DIGIT SEVEN), "1__0", "@kino", "@k", "\u2003-1001 ",
\* "111...1" and " \u3000", which is empty once stripped
ConfigDefault == <<45, 49, 48, 48, 49>>
Configs ==
    { ConfigDefault, <<45, 49, 48, 48, 50>>, <<43, 55>>, <<49, 95, 48>>, <<1639>>,
      <<49, 95, 95, 48>>, <<64, 107, 105, 110, 111>>, <<64, 107>>,
      PadWide \o ConfigDefault \o Pad, ConfigLong, TextSpace }

\* the chat of a join request: req.chat.id, and its public username ("" if none)
Chat(id, username) == [id |-> id, username |-> username]
NoChat == Chat(0, <<>>)
ChatDefault == Chat(-1001, <<>>)
ChatKino == Chat(-1002, <<107, 105, 110, 111>>)
JoinChats == { ChatDefault, ChatKino, Chat(7, <<107>>), Chat(10, <<>>), Chat(-5, <<120>>) }

\* the users that send join requests
NumJoinUsers == 3
JoinUsers == 1..NumJoinUsers

(***************************************************************************)
(* State.                                                                  *)
(***************************************************************************)
VARIABLES
    CHANNEL_ID,   \* the configured channel, a text
    sess,         \* the FSM storage: per user, the state and the data
    movies,       \* the rows of table movies
    typed,        \* history: per user, message.text as sent for each key of the data
                  \* in the run of the wizard that the last /kino began
    lastCommit,   \* history: per code, the last (title, kind, payload) passed to upsert_movie
    ev,           \* the event just handled
    out,          \* what the handler of ev sent, in order
    tasks         \* the handlers suspended at an await: per task, its position and locals

vars == <<CHANNEL_ID, sess, movies, typed, lastCommit, ev, out, tasks>>

\* StatesGroup AddMovie
NoState == "None"
AddMovie_code == "AddMovie:code"
AddMovie_title == "AddMovie:title"
AddMovie_content == "AddMovie:content"

EmptyData == [k \in {} |-> <<>>]
NoSession == [state |-> NoState, data |-> EmptyData]

\* state.update_data(key=value)
update_data(data, key, value) ==
    [k \in DOMAIN data \cup {key} |-> IF k = key THEN value ELSE data[k]]

\* state.set_state(s)
set_state(session, s) == [session EXCEPT !.state = s]

\* clear that resets the state and keeps the data
clear_state(session) == [session EXCEPT !.state = NoState]

\* state.clear(): the state and the data
clear(session) == NoSession

Reply(m, a) == [msg |-> m, args |-> a]

\* the event handled: the handler, its inputs, whether the subscription check
\* passed (ok), whether an exception left the handler (raised), the database
\* call made (db), whether the code upserted had a row before (existed), the
\* (title, kind, payload) of that row (old) and how message.answer_video ended
\* when it was called (video)
Event(h, u, m, oc, ok, raised) ==
    [handler |-> h, user |-> u, msg |-> m, oc |-> oc, chat |-> NoChat,
     ok |-> ok, raised |-> raised, db |-> "", existed |-> FALSE, old |-> <<>>,
     video |-> ""]

(***************************************************************************)
(* The table movies: code is its primary key.                              *)
(***************************************************************************)
Row(code, title, kind, payload) ==
    [code |-> code, title |-> title, kind |-> kind, payload |-> payload]

\* upsert_movie as a plain INSERT into a table without the primary key
upsert_movie_insert(rows, code, title, kind, payload) ==
    rows \cup {Row(code, title, kind, payload)}

\* upsert_movie with ON CONFLICT(code) DO NOTHING
upsert_movie_keep(rows, code, title, kind, payload) ==
    IF \E r \in rows : r.code = code
    THEN rows
    ELSE rows \cup {Row(code, title, kind, payload)}

\* upsert_movie that empties the table before the INSERT
upsert_movie_replace(rows, code, title, kind, payload) ==
    {Row(code, title, kind, payload)}

\* upsert_movie with ON CONFLICT(code) DO UPDATE SET title only
upsert_movie_title(rows, code, title, kind, payload) ==
    IF \E r \in rows : r.code = code
    THEN {IF r.code = code THEN Row(r.code, title, r.kind, r.payload) ELSE r : r \in rows}
    ELSE rows \cup {Row(code, title, kind, payload)}

\* INSERT ... ON CONFLICT(code) DO UPDATE SET title, kind, payload
upsert_movie(rows, code, title, kind, payload) ==
    IF \E r \in rows : r.code = code
    THEN {IF r.code = code THEN Row(r.code, title, kind, payload) ELSE r : r \in rows}
    ELSE rows \cup {Row(code, title, kind, payload)}

Lower(s) == [i \in DOMAIN s |-> IF s[i] \in 65..90 THEN s[i] + 32 ELSE s[i]]

\* get_movie that compares the codes without their case
get_movie_nocase(rows, code) ==
    IF \E r \in rows : Lower(r.code) = Lower(code)
    THEN LET r == CHOOSE x \in rows : Lower(x.code) = Lower(code)
         IN  <<r.title, r.kind, r.payload>>
    ELSE <<>>

\* SELECT title, kind, payload FROM movies WHERE code=$1, fetchrow: the first
\* row found as (title, kind, payload), or <<>> for None
get_movie(rows, code) ==
    IF \E r \in rows : r.code = code
    THEN LET r == CHOOSE x \in rows : x.code = code
         IN  <<r.title, r.kind, r.payload>>
    ELSE <<>>

\* the order of two texts, code point by code point
RECURSIVE TextLeq(_, _)
TextLeq(a, b) ==
    IF a = <<>> THEN TRUE
    ELSE IF b = <<>> THEN FALSE
    ELSE IF Head(a) # Head(b) THEN Head(a) < Head(b)
    ELSE TextLeq(Tail(a), Tail(b))

\* SELECT code, title FROM movies ORDER BY code ASC
RECURSIVE list_movies(_)
list_movies(rows) ==
    IF rows = {} THEN <<>>
    ELSE LET first == CHOOSE r \in rows : \A q \in rows : TextLeq(r.code, q.code)
         IN  <<<<first.code, first.title>>>> \o list_movies(rows \ {first})

(***************************************************************************)
(* The subscription check.                                                 *)
(***************************************************************************)
\* is_subscribed that takes every restricted user for a member
is_subscribed_restricted(oc) ==
    IF oc.raises THEN [raised |-> FALSE, value |-> FALSE]
    ELSE [raised |-> FALSE,
          value |-> oc.status \in {"creator", "administrator", "member", "restricted"}]

\* is_subscribed without its try/except
is_subscribed_unguarded(oc) ==
    IF oc.raises THEN [raised |-> TRUE, value |-> FALSE]
    ELSE IF oc.status \in {"creator", "administrator", "member"}
         THEN [raised |-> FALSE, value |-> TRUE]
    ELSE IF oc.status = "restricted"
         THEN [raised |-> FALSE, value |-> oc.is_member]
    ELSE [raised |-> FALSE, value |-> FALSE]

\* is_subscribed that takes no restricted user for a member
is_subscribed_flag(oc) ==
    IF oc.raises THEN [raised |-> FALSE, value |-> FALSE]
    ELSE [raised |-> FALSE, value |-> oc.status \in {"creator", "administrator", "member"}]

\* the value returned, or raised = TRUE when an exception leaves the function
is_subscribed(oc) ==
    IF oc.raises THEN [raised |-> FALSE, value |-> FALSE]
    ELSE IF oc.status \in {"creator", "administrator", "member"}
         THEN [raised |-> FALSE, value |-> TRUE]
    ELSE IF oc.status = "restricted"
         THEN [raised |-> FALSE, value |-> oc.is_member]
    ELSE [raised |-> FALSE, value |-> FALSE]

JoinPrompt == Reply("join_prompt", <<>>)

require_subscribed(u, oc) ==
    IF u = NoUser THEN [ok |-> FALSE, raised |-> FALSE, out |-> <<>>]
    ELSE LET r == is_subscribed(oc)
         IN  IF r.raised THEN [ok |-> FALSE, raised |-> TRUE, out |-> <<>>]
             ELSE IF ~r.value THEN [ok |-> FALSE, raised |-> FALSE, out |-> <<JoinPrompt>>]
             ELSE [ok |-> TRUE, raised |-> FALSE, out |-> <<>>]

(***************************************************************************)
(* Routing: the dispatcher calls the first registered handler whose filter *)
(* matches (CommandStart, Command("kino"), the three states, then any).    *)
(***************************************************************************)
\* message.text or ""
TextOf(msg) == IF msg.hasText THEN msg.text ELSE <<>>

StateOf(u) == IF u \in DOMAIN sess THEN sess[u].state ELSE NoState

\* Dispatch with the handler of any message registered before the state handlers
Dispatch_lookup(u, msg) ==
    IF FirstWordIs(TextOf(msg), StartCommand) THEN "start_cmd"
    ELSE IF FirstWordIs(TextOf(msg), KinoCommand) THEN "add_movie_cmd"
    ELSE "handle_codes"

Dispatch(u, msg) ==
    IF FirstWordIs(TextOf(msg), StartCommand) THEN "start_cmd"
    ELSE IF FirstWordIs(TextOf(msg), KinoCommand) THEN "add_movie_cmd"
    ELSE IF StateOf(u) = AddMovie_code THEN "add_movie_code"
    ELSE IF StateOf(u) = AddMovie_title THEN "add_movie_title"
    ELSE IF StateOf(u) = AddMovie_content THEN "add_movie_content"
    ELSE "handle_codes"

(***************************************************************************)
(* Tasks.  dp.start_polling handles every update in a task of its own, and *)
(* the event loop switches tasks where a handler awaits the network or the *)
(* database: get_chat_member, upsert_movie, get_movie, list_movies and the *)
(* replies.  The FSM storage is in memory: its calls do not suspend the    *)
(* task.  So each handler is a sequence of steps, one per stretch of code  *)
(* between two awaits that suspend, and the steps of the handlers that are *)
(* in flight interleave: any update may arrive while another is handled.   *)
(***************************************************************************)
NoEvent == Event("", NoUser, NoMessage, NoOutcome, FALSE, FALSE)

\* the number of updates that are being handled at the same time
NumTasks == 2
TaskIds == 1..NumTasks
TaskUsers == {1, 2}

\* a task: where it is suspended (pc), and the locals of its handler
Idle ==
    [pc |-> "idle", handler |-> "", user |-> NoUser, msg |-> NoMessage, oc |-> NoOutcome,
     code |-> <<>>, title |-> <<>>, kind |-> "", payload |-> <<>>, row |-> <<>>,
     existed |-> FALSE, old |-> <<>>]

\* the task ends: the event it handled and what it sent
Finish(t, event, replies) ==
    /\ tasks' = [tasks EXCEPT ![t] = Idle]
    /\ ev' = event
    /\ out' = replies

\* the task is suspended at its next await
Suspend(t, task) ==
    /\ tasks' = [tasks EXCEPT ![t] = task]
    /\ ev' = NoEvent
    /\ out' = <<>>

\* the task is suspended in get_chat_member, called by the handler named h
Resumes(t, h) == tasks[t].pc = "require_subscribed" /\ tasks[t].handler = h

\* the task that handles the next update: the tasks are alike, so the update
\* is given to the first that handles none
FreeTask(t) ==
    /\ tasks[t].pc = "idle"
    /\ \A s \in TaskIds : s < t => tasks[s].pc # "idle"

\* a message arrives: the dispatcher picks the handler by the filters, with
\* the state of the session as it is now, and the handler runs to the await of
\* get_chat_member in require_subscribed.  Without from_user require_subscribed
\* returns False before any await, and the handler returns
task_start(t, u, msg) ==
    /\ FreeTask(t)
    /\ IF u = NoUser
       THEN Finish(t, Event(Dispatch(u, msg), u, msg, NoOutcome, FALSE, FALSE),
                   require_subscribed(u, NoOutcome).out)
       ELSE Suspend(t, [Idle EXCEPT !.pc = "require_subscribed",
                                    !.handler = Dispatch(u, msg),
                                    !.user = u, !.msg = msg])
    /\ UNCHANGED <<CHANNEL_ID, sess, movies, typed, lastCommit>>

(***************************************************************************)
(* Handlers.  The step named after a handler is the one that begins when   *)
(* get_chat_member returns (oc) to require_subscribed.                     *)
(***************************************************************************)
\* Refused that also clears the session of the user
Refused_clear(t, oc, g) ==
    /\ Finish(t, Event(tasks[t].handler, tasks[t].user, tasks[t].msg, oc, FALSE, g.raised),
              g.out)
    /\ sess' = [x \in DOMAIN sess |-> IF x = tasks[t].user THEN clear(sess[x]) ELSE sess[x]]
    /\ UNCHANGED <<CHANNEL_ID, movies, typed, lastCommit>>

\* what a handler does when require_subscribed returned False or raised
Refused(t, oc, g) ==
    /\ Finish(t, Event(tasks[t].handler, tasks[t].user, tasks[t].msg, oc, FALSE, g.raised),
              g.out)
    /\ UNCHANGED <<CHANNEL_ID, sess, movies, typed, lastCommit>>

\* a handler that passed the check, sends replies and changes nothing else
Answered(t, oc, replies) ==
    /\ Finish(t, Event(tasks[t].handler, tasks[t].user, tasks[t].msg, oc, TRUE, FALSE),
              replies)
    /\ UNCHANGED <<CHANNEL_ID, sess, movies, typed, lastCommit>>

start_cmd(t, oc) ==
    /\ Resumes(t, "start_cmd")
    /\ LET g == require_subscribed(tasks[t].user, oc)
       IN  IF ~g.ok THEN Refused(t, oc, g)
           ELSE Answered(t, oc, <<Reply("welcome", <<>>)>>)

add_movie_cmd(t, oc) ==
    /\ Resumes(t, "add_movie_cmd")
    /\ LET u == tasks[t].user
           g == require_subscribed(u, oc)
       IN  IF ~g.ok THEN Refused(t, oc, g)
           ELSE /\ sess' = [sess EXCEPT ![u] = set_state(@, AddMovie_code)]
                /\ typed' = [typed EXCEPT ![u] = EmptyData]
                /\ Finish(t, Event("add_movie_cmd", u, tasks[t].msg, oc, TRUE, FALSE),
                          <<Reply("ask_code", <<>>)>>)
                /\ UNCHANGED <<CHANNEL_ID, movies, lastCommit>>

add_movie_code(t, oc) ==
    /\ Resumes(t, "add_movie_code")
    /\ LET u == tasks[t].user
           msg == tasks[t].msg
           g == require_subscribed(u, oc)
           code == Strip(TextOf(msg))
       IN  IF ~g.ok THEN Refused(t, oc, g)
           ELSE IF ~CODE_RE(code)
           THEN Answered(t, oc, <<Reply("bad_code", <<>>)>>)
           ELSE /\ sess' = [sess EXCEPT ![u] =
                              set_state([@ EXCEPT !.data = update_data(@, "code", code)],
                                        AddMovie_title)]
                /\ typed' = [typed EXCEPT ![u] = update_data(@, "code", TextOf(msg))]
                /\ Finish(t, Event("add_movie_code", u, msg, oc, TRUE, FALSE),
                          <<Reply("ask_title", <<>>)>>)
                /\ UNCHANGED <<CHANNEL_ID, movies, lastCommit>>

add_movie_title(t, oc) ==
    /\ Resumes(t, "add_movie_title")
    /\ LET u == tasks[t].user
           msg == tasks[t].msg
           g == require_subscribed(u, oc)
           title == Strip(TextOf(msg))
       IN  IF ~g.ok THEN Refused(t, oc, g)
           ELSE IF title = <<>>
           THEN Answered(t, oc, <<Reply("empty_title", <<>>)>>)
           ELSE /\ sess' = [sess EXCEPT ![u] =
                              set_state([@ EXCEPT !.data = update_data(@, "title", title)],
                                        AddMovie_content)]
                /\ typed' = [typed EXCEPT ![u] = update_data(@, "title", TextOf(msg))]
                /\ Finish(t, Event("add_movie_title", u, msg, oc, TRUE, FALSE),
                          <<Reply("ask_content", <<>>)>>)
                /\ UNCHANGED <<CHANNEL_ID, movies, lastCommit>>

\* the content step up to the await of upsert_movie: it reads the drafts of
\* the session as they are when get_chat_member has returned
add_movie_content(t, oc) ==
    /\ Resumes(t, "add_movie_content")
    /\ LET u == tasks[t].user
           msg == tasks[t].msg
           g == require_subscribed(u, oc)
           data == sess[u].data
           text == Strip(TextOf(msg))
       IN  IF ~g.ok THEN Refused(t, oc, g)
           ELSE IF ~({"code", "title"} \subseteq DOMAIN data)
           \* data["code"] or data["title"] raises KeyError
           THEN /\ Finish(t, Event("add_movie_content", u, msg, oc, TRUE, TRUE), <<>>)
                /\ UNCHANGED <<CHANNEL_ID, sess, movies, typed, lastCommit>>
           ELSE IF IsLink(text) \/ msg.hasVideo
           THEN /\ Suspend(t, [tasks[t] EXCEPT
                                 !.pc = "upsert_movie", !.oc = oc,
                                 !.code = data["code"], !.title = data["title"],
                                 !.kind = IF IsLink(text) THEN "link" ELSE "telegram",
                                 !.payload = IF IsLink(text) THEN text ELSE msg.file_id])
                /\ UNCHANGED <<CHANNEL_ID, sess, movies, typed, lastCommit>>
           ELSE Answered(t, oc, <<Reply("bad_content", <<>>)>>)

\* the INSERT runs on the database, or fails there (db = "fail"): the row is
\* in the table while the task still waits for upsert_movie to return.  A
\* statement that failed wrote nothing, so its exception leaves the handler
\* in the same step
task_upsert_movie(t, db) ==
    /\ tasks[t].pc = "upsert_movie"
    /\ LET k == tasks[t]
       IN  IF db = "fail"
           THEN /\ Finish(t, [Event(k.handler, k.user, k.msg, k.oc, TRUE, TRUE)
                                 EXCEPT !.db = "upsert_movie"], <<>>)
                /\ UNCHANGED <<CHANNEL_ID, sess, movies, typed, lastCommit>>
           ELSE /\ movies' = upsert_movie(movies, k.code, k.title, k.kind, k.payload)
                /\ lastCommit' = update_data(lastCommit, k.code, <<k.title, k.kind, k.payload>>)
                /\ Suspend(t, [k EXCEPT !.pc = "clear",
                                        !.existed = \E r \in movies : r.code = k.code,
                                        !.old = get_movie(movies, k.code)])
                /\ UNCHANGED <<CHANNEL_ID, sess, typed>>

\* upsert_movie returned: state.clear() and the reply follow
task_clear(t) ==
    /\ tasks[t].pc = "clear"
    /\ LET k == tasks[t]
       IN  /\ sess' = [sess EXCEPT ![k.user] = clear(@)]
           /\ typed' = [typed EXCEPT ![k.user] = EmptyData]
           /\ Finish(t, [Event(k.handler, k.user, k.msg, k.oc, TRUE, FALSE)
                           EXCEPT !.db = "upsert_movie", !.existed = k.existed,
                                  !.old = k.old],
                     <<Reply("saved", <<k.code, k.title, k.kind>>)>>)
           /\ UNCHANGED <<CHANNEL_ID, movies, lastCommit>>

\* the lookup up to the await of get_movie
handle_codes(t, oc) ==
    /\ Resumes(t, "handle_codes")
    /\ LET g == require_subscribed(tasks[t].user, oc)
       IN  IF ~g.ok THEN Refused(t, oc, g)
           ELSE IF Strip(TextOf(tasks[t].msg)) = <<>>
           THEN Answered(t, oc, <<>>)
           ELSE /\ Suspend(t, [tasks[t] EXCEPT !.pc = "get_movie", !.oc = oc])
                /\ UNCHANGED <<CHANNEL_ID, sess, movies, typed, lastCommit>>

\* the SELECT returned: no row and the handler returns, or a row for send_movie
task_get_movie(t) ==
    /\ tasks[t].pc = "get_movie"
    /\ LET k == tasks[t]
           row == get_movie(movies, Strip(TextOf(k.msg)))
       IN  IF row = <<>>
           THEN Finish(t, [Event(k.handler, k.user, k.msg, k.oc, TRUE, FALSE)
                             EXCEPT !.db = "get_movie"], <<>>)
           ELSE Suspend(t, [k EXCEPT !.pc = "send_movie", !.row = row])
    /\ UNCHANGED <<CHANNEL_ID, sess, movies, typed, lastCommit>>

\* send_movie without the except branch of answer_video
send_movie_nofallback(title, kind, payload, video) ==
    IF kind = "link" THEN <<Reply("movie_link", <<title, payload>>)>>
    ELSE <<Reply("movie_found", <<title>>)>>
         \o (IF video = "ok" THEN <<Reply("video", <<payload, title>>)>> ELSE <<>>)

\* what send_movie sends; video = "fail": message.answer_video raises
send_movie(title, kind, payload, video) ==
    IF kind = "link" THEN <<Reply("movie_link", <<title, payload>>)>>
    ELSE <<Reply("movie_found", <<title>>)>>
         \o (IF video = "ok"
             THEN <<Reply("video", <<payload, title>>)>>
             ELSE <<Reply("file_id", <<payload>>)>>)

\* send_movie sends the row that get_movie returned
task_send_movie(t, video) ==
    /\ tasks[t].pc = "send_movie"
    /\ LET k == tasks[t]
       IN  /\ video = "fail" => k.row[2] # "link"
           /\ Finish(t, [Event(k.handler, k.user, k.msg, k.oc, TRUE, FALSE)
                           EXCEPT !.db = "get_movie",
                                  !.video = IF k.row[2] # "link" THEN video ELSE ""],
                      send_movie(k.row[1], k.row[2], k.row[3], video))
    /\ UNCHANGED <<CHANNEL_ID, sess, movies, typed, lastCommit>>

\* a callback query arrives: the dispatcher picks the handler by call.data,
\* F.data == "check_sub" or "all_movies", and the handler runs to the await of
\* get_chat_member in is_subscribed.  Without from_user check_sub_cb answers
\* the alert and returns, and call.from_user.id raises in all_movies_cb
callback_start(t, u, data) ==
    /\ FreeTask(t)
    /\ IF u = NoUser
       THEN IF data = "check_sub"
            THEN Finish(t, Event("check_sub_cb", u, NoMessage, NoOutcome, FALSE, FALSE),
                        <<Reply("alert_error", <<>>)>>)
            ELSE Finish(t, Event("all_movies_cb", u, NoMessage, NoOutcome, FALSE, TRUE), <<>>)
       ELSE Suspend(t, [Idle EXCEPT !.pc = "is_subscribed",
                                    !.handler = IF data = "check_sub" THEN "check_sub_cb"
                                                ELSE "all_movies_cb",
                                    !.user = u])
    /\ UNCHANGED <<CHANNEL_ID, sess, movies, typed, lastCommit>>

\* the task is suspended in get_chat_member, called by is_subscribed in the
\* callback handler named h
ResumesCallback(t, h) == tasks[t].pc = "is_subscribed" /\ tasks[t].handler = h

\* what check_sub_cb answers when is_subscribed has returned
check_sub_answer(r) ==
    IF r.raised THEN <<>>
    ELSE IF r.value THEN <<Reply("subscribed", <<>>), Reply("callback_answer", <<>>)>>
    ELSE <<Reply("alert_not_subscribed", <<>>)>>

\* check_sub_cb that also clears the session of the user who pressed
check_sub_cb_clear(t, oc) ==
    /\ ResumesCallback(t, "check_sub_cb")
    /\ LET u == tasks[t].user
           r == is_subscribed(oc)
       IN  /\ Finish(t, Event("check_sub_cb", u, NoMessage, oc, r.value, r.raised),
                     check_sub_answer(r))
           /\ sess' = [x \in DOMAIN sess |-> IF x = u THEN clear(sess[x]) ELSE sess[x]]
    /\ UNCHANGED <<CHANNEL_ID, movies, typed, lastCommit>>

\* the callback of "check_sub", from the return of get_chat_member (oc) to
\* is_subscribed: it answers and reads and writes neither session nor table
check_sub_cb(t, oc) ==
    /\ ResumesCallback(t, "check_sub_cb")
    /\ LET r == is_subscribed(oc)
       IN  Finish(t, Event("check_sub_cb", tasks[t].user, NoMessage, oc, r.value, r.raised),
                  check_sub_answer(r))
    /\ UNCHANGED <<CHANNEL_ID, sess, movies, typed, lastCommit>>

max_lines == 60

\* the messages of the list: one per max_lines lines, and one for the rest
RECURSIVE Chunks(_)
Chunks(lines) ==
    IF lines = <<>> THEN <<>>
    ELSE IF Len(lines) >= max_lines
    THEN <<Reply("list", SubSeq(lines, 1, max_lines))>>
         \o Chunks(SubSeq(lines, max_lines + 1, Len(lines)))
    ELSE <<Reply("list", lines)>>

\* the callback of "all_movies", from the return of get_chat_member (oc) to
\* is_subscribed up to the await of list_movies
all_movies_cb(t, oc) ==
    /\ ResumesCallback(t, "all_movies_cb")
    /\ LET u == tasks[t].user
           r == is_subscribed(oc)
       IN  IF r.raised
           THEN Finish(t, Event("all_movies_cb", u, NoMessage, oc, FALSE, TRUE), <<>>)
           ELSE IF ~r.value
           THEN Finish(t, Event("all_movies_cb", u, NoMessage, oc, FALSE, FALSE),
                       <<Reply("join_prompt_list", <<>>), Reply("callback_answer", <<>>)>>)
           ELSE Suspend(t, [tasks[t] EXCEPT !.pc = "list_movies", !.oc = oc])
    /\ UNCHANGED <<CHANNEL_ID, sess, movies, typed, lastCommit>>

\* the SELECT of list_movies returned its rows
task_list_movies(t) ==
    /\ tasks[t].pc = "list_movies"
    /\ Suspend(t, [tasks[t] EXCEPT !.pc = "send_list", !.row = list_movies(movies)])
    /\ UNCHANGED <<CHANNEL_ID, sess, movies, typed, lastCommit>>

\* the rows that list_movies returned are sent
task_send_list(t) ==
    /\ tasks[t].pc = "send_list"
    /\ LET k == tasks[t]
       IN  Finish(t, [Event(k.handler, k.user, k.msg, k.oc, TRUE, FALSE)
                        EXCEPT !.db = "list_movies"],
                  IF k.row = <<>>
                  THEN <<Reply("list_empty", <<>>), Reply("callback_answer", <<>>)>>
                  ELSE Chunks(k.row) \o <<Reply("callback_answer", <<>>)>>)
    /\ UNCHANGED <<CHANNEL_ID, sess, movies, typed, lastCommit>>

\* approve = "fail": bot.approve_chat_join_request raises; dm = "fail":
\* bot.send_message raises.  The handler reads CHANNEL_ID_CAST only, which
\* never changes, so its awaits are not steps of their own
on_join_request(chat, u, approve, dm) ==
    /\ ev' = [Event("on_join_request", u, NoMessage, NoOutcome, TRUE, FALSE)
                EXCEPT !.chat = chat]
    /\ IF CHANNEL_ID_CAST(CHANNEL_ID).isInt /\ chat.id # CHANNEL_ID_CAST(CHANNEL_ID).int
       THEN approve = "ok" /\ dm = "ok" /\ out' = <<>>
       ELSE IF approve = "fail"
       THEN /\ dm = "ok"
            /\ out' = <<Reply("approve_chat_join_request", <<chat.id, u>>),
                        Reply("print", <<>>)>>
       ELSE out' = <<Reply("approve_chat_join_request", <<chat.id, u>>)>>
                   \o (IF dm = "ok" THEN <<Reply("request_approved", <<u>>)>> ELSE <<>>)
    /\ UNCHANGED <<CHANNEL_ID, tasks, sess, movies, typed, lastCommit>>

(***************************************************************************)
(* Specifications.                                                         *)
(***************************************************************************)

\* the state when polling starts: CHANNEL_ID is the configured text, stripped,
\* and the program has raised RuntimeError before that if it is empty
InitWith(configs, users) ==
    /\ CHANNEL_ID \in {Strip(c) : c \in configs} \ {<<>>}
    /\ sess = [u \in users |-> NoSession]
    /\ movies = {}
    /\ typed = [u \in users |-> EmptyData]
    /\ lastCommit = EmptyData
    /\ ev = NoEvent
    /\ out = <<>>
    /\ tasks = [t \in TaskIds |-> Idle]

Outcome == {"ok", "fail"}

\* call.data of the two buttons
CallbackData == {"check_sub", "all_movies"}

\* the steps of the handlers of messages and callbacks, for the given senders
\* and inputs
Handle(users, msgs, ocs) ==
    \/ \E t \in TaskIds, u \in users, msg \in msgs : task_start(t, u, msg)
    \/ \E t \in TaskIds, msg \in AnonymousMessages : task_start(t, NoUser, msg)
    \/ \E t \in TaskIds, oc \in ocs : start_cmd(t, oc)
    \/ \E t \in TaskIds, oc \in ocs : add_movie_cmd(t, oc)
    \/ \E t \in TaskIds, oc \in ocs : add_movie_code(t, oc)
    \/ \E t \in TaskIds, oc \in ocs : add_movie_title(t, oc)
    \/ \E t \in TaskIds, oc \in ocs : add_movie_content(t, oc)
    \/ \E t \in TaskIds, db \in Outcome : task_upsert_movie(t, db)
    \/ \E t \in TaskIds : task_clear(t)
    \/ \E t \in TaskIds, oc \in ocs : handle_codes(t, oc)
    \/ \E t \in TaskIds : task_get_movie(t)
    \/ \E t \in TaskIds, video \in Outcome : task_send_movie(t, video)
    \/ \E t \in TaskIds, u \in users, data \in CallbackData : callback_start(t, u, data)
    \/ \E t \in TaskIds, oc \in ocs : check_sub_cb(t, oc)
    \/ \E t \in TaskIds, oc \in ocs : all_movies_cb(t, oc)
    \/ \E t \in TaskIds : task_list_movies(t)
    \/ \E t \in TaskIds : task_send_list(t)

JoinRequest(chats, users) ==
    \E chat \in chats, u \in users, approve \in Outcome, dm \in Outcome :
        on_join_request(chat, u, approve, dm)

\* one user, two codes
Init == InitWith({ConfigDefault}, Users)
Next == Handle(Users, Messages, Outcomes)
Spec == Init /\ [][Next]_vars

\* one user, one code, the texts of the check of the code
NextCode == Handle(Users, CodeMessages, Outcomes)
SpecCode == Init /\ [][NextCode]_vars

\* one user, one code, the texts of the checks of the title and the content
NextWizard == Handle(Users, WizardMessages, Outcomes)
SpecWizard == Init /\ [][NextWizard]_vars

\* one user, every outcome of get_chat_member
NextGate == Handle(Users, GateMessages, AllOutcomes)
SpecGate == Init /\ [][NextGate]_vars

\* one user who runs the wizard for the code "A1" and looks it up, with a link
\* and two videos for content.  The table outlives the program (CREATE TABLE IF
\* NOT EXISTS): it starts with the row that an earlier run committed for "a1"
StoredRow == Row(<<97, 49>>, TextHttps, "telegram", <<87>>)
InitStore ==
    /\ CHANNEL_ID = ConfigDefault
    /\ sess = [u \in Users |-> NoSession]
    /\ movies = {StoredRow}
    /\ typed = [u \in Users |-> EmptyData]
    /\ lastCommit = update_data(EmptyData, StoredRow.code,
                                <<StoredRow.title, StoredRow.kind, StoredRow.payload>>)
    /\ ev = NoEvent
    /\ out = <<>>
    /\ tasks = [t \in TaskIds |-> Idle]

NextStore ==
    \/ \E t \in TaskIds, u \in Users, msg \in StoreMessages : task_start(t, u, msg)
    \/ \E t \in TaskIds, oc \in Outcomes : add_movie_cmd(t, oc)
    \/ \E t \in TaskIds, oc \in Outcomes : add_movie_code(t, oc)
    \/ \E t \in TaskIds, oc \in Outcomes : add_movie_title(t, oc)
    \/ \E t \in TaskIds, oc \in Outcomes : add_movie_content(t, oc)
    \/ \E t \in TaskIds, db \in Outcome : task_upsert_movie(t, db)
    \/ \E t \in TaskIds : task_clear(t)
    \/ \E t \in TaskIds, oc \in Outcomes : handle_codes(t, oc)
    \/ \E t \in TaskIds : task_get_movie(t)
    \/ \E t \in TaskIds, video \in Outcome : task_send_movie(t, video)
SpecStore == InitStore /\ [][NextStore]_vars

\* two users that have sent the same code and their titles, and now send
\* content and lookups
TaskTitle(u) == IF u = 1 THEN TextA1 ELSE TextHttps
TaskMessages(u) ==
    IF u = 1 THEN {TextMessage(TextHttp), TextMessage(TextPaddedA1)}
    ELSE {VideoMessage(<<86>>), TextMessage(TextPaddedA1)}
InitTasks ==
    /\ CHANNEL_ID = ConfigDefault
    /\ sess = [u \in TaskUsers |->
                 [state |-> AddMovie_content,
                  data |-> update_data(update_data(EmptyData, "code", TextA1),
                                       "title", TaskTitle(u))]]
    /\ typed = [u \in TaskUsers |-> sess[u].data]
    /\ movies = {}
    /\ lastCommit = EmptyData
    /\ ev = NoEvent
    /\ out = <<>>
    /\ tasks = [t \in TaskIds |-> Idle]

NextTasks ==
    \/ \E t \in TaskIds, u \in TaskUsers : \E msg \in TaskMessages(u) : task_start(t, u, msg)
    \/ \E t \in TaskIds, oc \in Outcomes : add_movie_content(t, oc)
    \/ \E t \in TaskIds, db \in Outcome : task_upsert_movie(t, db)
    \/ \E t \in TaskIds : task_clear(t)
    \/ \E t \in TaskIds, oc \in Outcomes : handle_codes(t, oc)
    \/ \E t \in TaskIds : task_get_movie(t)
    \/ \E t \in TaskIds, video \in Outcome : task_send_movie(t, video)

SpecTasks == InitTasks /\ [][NextTasks]_vars

\* two users: user 1 sends /kino and a code or title, presses "check_sub" and
\* asks to join the channel; user 2 sends these and a video
UsersMessages(u) ==
    IF u = 1 THEN {TextMessage(KinoCommand), TextMessage(TextA1)}
    ELSE MessagesOf({KinoCommand, TextA1})
InitUsers == InitWith({ConfigDefault}, TaskUsers)
NextUsers ==
    \/ \E t \in TaskIds, u \in TaskUsers : \E msg \in UsersMessages(u) : task_start(t, u, msg)
    \/ \E t \in TaskIds, oc \in Outcomes : add_movie_cmd(t, oc)
    \/ \E t \in TaskIds, oc \in Outcomes : add_movie_code(t, oc)
    \/ \E t \in TaskIds, oc \in Outcomes : add_movie_title(t, oc)
    \/ \E t \in TaskIds, oc \in Outcomes : add_movie_content(t, oc)
    \/ \E t \in TaskIds, db \in Outcome : task_upsert_movie(t, db)
    \/ \E t \in TaskIds : task_clear(t)
    \/ \E t \in TaskIds, oc \in Outcomes : handle_codes(t, oc)
    \/ \E t \in TaskIds : task_get_movie(t)
    \/ \E t \in TaskIds, video \in Outcome : task_send_movie(t, video)
    \/ \E t \in TaskIds : callback_start(t, 1, "check_sub")
    \/ \E t \in TaskIds, oc \in Outcomes : check_sub_cb(t, oc)
    \/ JoinRequest({ChatDefault}, {1})
SpecUsers == InitUsers /\ [][NextUsers]_vars

\* the join requests alone, over the configurations
InitJoin == InitWith(Configs, Users)
NextJoin == JoinRequest(JoinChats, JoinUsers)
SpecJoin == InitJoin /\ [][NextJoin]_vars

(***************************************************************************)
(* Properties.  A step that ends a handler is identified by ev', the event *)
(* it handled; a step of a handler that goes on is identified by the task  *)
(* that takes it.  The unprimed variables are the state the step found.    *)
(***************************************************************************)
\* s without its leading and trailing whitespace
Trimmed(s) ==
    LET blank == {9, 10, 11, 12, 13, 28, 29, 30, 31, 32, 133, 160, 5760, 8192, 8193,
                  8194, 8195, 8196, 8197, 8198, 8199, 8200, 8201, 8202, 8232, 8233,
                  8239, 8287, 12288}
        keep == {i \in 1..Len(s) : s[i] \notin blank}
        first == CHOOSE i \in keep : \A j \in keep : i <= j
        last == CHOOSE i \in keep : \A j \in keep : j <= i
    IN  IF keep = {} THEN <<>> ELSE SubSeq(s, first, last)

\* s matches ^[A-Za-z0-9_-]{1,32}$
MatchesCodePattern(s) ==
    /\ Len(s) \in 1..32
    /\ \A i \in 1..Len(s) : \/ s[i] \in 48..57
                            \/ s[i] \in 65..90
                            \/ s[i] \in 97..122
                            \/ s[i] \in {45, 95}

\* s begins with http:// or https://
BeginsWithHttp(s) ==
    \E p \in {HttpPrefix, HttpsPrefix} : Len(s) >= Len(p) /\ SubSeq(s, 1, Len(p)) = p

\* the membership check yields member: creator, administrator, member, or
\* restricted and still a member
Member(oc) ==
    /\ ~oc.raises
    /\ \/ oc.status \in {"creator", "administrator", "member"}
       \/ oc.status = "restricted" /\ oc.is_member

MessageHandlers ==
    {"start_cmd", "add_movie_cmd", "add_movie_code", "add_movie_title",
     "add_movie_content", "handle_codes"}

\* the step is a step of the task t
Acts(t) == tasks'[t] # tasks[t]

\* the step is the one in which the content step of task t, allowed by the
\* membership check, reads the drafts and goes on to the upsert
ReadsDrafts(t) ==
    /\ tasks[t].pc = "require_subscribed"
    /\ tasks[t].handler = "add_movie_content"
    /\ tasks'[t].pc = "upsert_movie"

\* the step is the one in which the upsert of task t writes its record
Upserts(t) == tasks[t].pc = "upsert_movie" /\ tasks'[t].pc = "clear"

\* the step is the one in which the upsert of task t fails
UpsertFails(t) == tasks[t].pc = "upsert_movie" /\ tasks'[t].pc = "idle"

\* the step is the one in which upsert_movie has returned to task t, which
\* clears the session and replies
Clears(t) == tasks[t].pc = "clear" /\ Acts(t)

\* C1 as stated: a member's text that, as sent, does not match the code
\* pattern leaves the session of the code step as it is and writes no record
C1_Original ==
    [][ (/\ ev'.handler = "add_movie_code"
         /\ Member(ev'.oc)
         /\ ~MatchesCodePattern(TextOf(ev'.msg)))
        => /\ sess' = sess
           /\ movies' = movies ]_vars

\* C1 amended: a member's text that, without its surrounding whitespace, does
\* not match the code pattern leaves the session as the code step found it (in
\* AwaitingCode, no draft code stored) and writes no record
C1_Rejected ==
    [][ (/\ ev'.handler = "add_movie_code"
         /\ Member(ev'.oc)
         /\ ~MatchesCodePattern(Trimmed(TextOf(ev'.msg))))
        => /\ sess' = sess
           /\ movies' = movies
           /\ out' = <<Reply("bad_code", <<>>)>> ]_vars

C1_Witness ==
    /\ ev.handler = "add_movie_code"
    /\ Member(ev.oc)
    /\ Len(Trimmed(TextOf(ev.msg))) > 32
    /\ sess[ev.user].state = AddMovie_code
    /\ out = <<Reply("bad_code", <<>>)>>

\* C2 as stated: when a member has sent, since /kino, a code that matches the
\* pattern and a title that is not empty, and now a link that begins with
\* http:// or https://, the content step takes that code and title as sent, and
\* when it commits, get_movie(code) is exactly (title, "link", link as sent)
C2_Original ==
    [][ \A t \in TaskIds :
          LET u == tasks[t].user
              link == tasks[t].msg.text
          IN  /\ (/\ ReadsDrafts(t)
                  /\ DOMAIN typed[u] = {"code", "title"}
                  /\ MatchesCodePattern(typed[u]["code"])
                  /\ typed[u]["title"] # <<>>
                  /\ tasks[t].msg.hasText
                  /\ BeginsWithHttp(link))
                 => /\ tasks'[t].code = typed[u]["code"]
                    /\ tasks'[t].title = typed[u]["title"]
              /\ (/\ Upserts(t)
                  /\ tasks[t].msg.hasText
                  /\ BeginsWithHttp(link))
                 => get_movie(movies', tasks[t].code) = <<tasks[t].title, "link", link>> ]_vars

\* C2 amended: under the same conditions, taken of the texts without their
\* surrounding whitespace, the content step takes the code and the title
\* trimmed, and when it commits, get_movie(code) is (title, "link", link), all
\* without their surrounding whitespace
C2_RoundTrip ==
    [][ \A t \in TaskIds :
          LET u == tasks[t].user
              link == Trimmed(TextOf(tasks[t].msg))
          IN  /\ (/\ ReadsDrafts(t)
                  /\ DOMAIN typed[u] = {"code", "title"}
                  /\ BeginsWithHttp(link))
                 => /\ MatchesCodePattern(Trimmed(typed[u]["code"]))
                    /\ Trimmed(typed[u]["title"]) # <<>>
                    /\ tasks'[t].code = Trimmed(typed[u]["code"])
                    /\ tasks'[t].title = Trimmed(typed[u]["title"])
              /\ (/\ Upserts(t)
                  /\ BeginsWithHttp(link))
                 => get_movie(movies', tasks[t].code) = <<tasks[t].title, "link", link>> ]_vars

C2_Witness ==
    /\ ev.handler = "add_movie_content"
    /\ ev.db = "upsert_movie"
    /\ ~ev.raised
    /\ BeginsWithHttp(TextOf(ev.msg))
    /\ Trimmed(TextOf(ev.msg)) # TextOf(ev.msg)
    /\ get_movie(movies, TextA1) = <<TextA1, "link", Trimmed(TextOf(ev.msg))>>

\* C3: a content step that commits for a code that has a row leaves exactly
\* one row of that code, holding the title, kind and payload of the new
\* submission, and leaves the length of list_movies as it was; no two rows
\* ever share a code
C3_Overwrite ==
    [][ /\ \A t \in TaskIds :
             (/\ Upserts(t)
              /\ \E r \in movies : r.code = tasks[t].code)
             => LET text == Trimmed(TextOf(tasks[t].msg))
                    new == IF BeginsWithHttp(text)
                           THEN [code |-> tasks[t].code, title |-> tasks[t].title,
                                 kind |-> "link", payload |-> text]
                           ELSE [code |-> tasks[t].code, title |-> tasks[t].title,
                                 kind |-> "telegram", payload |-> tasks[t].msg.file_id]
                IN  /\ {r \in movies' : r.code = tasks[t].code} = {new}
                    /\ Len(list_movies(movies')) = Len(list_movies(movies))
        /\ \A r1, r2 \in movies' : r1.code = r2.code => r1 = r2 ]_vars

\* the row of "A1" with the title "A1" and the video "V" was replaced by the
\* title "http://x" with the link "http://x", beside the row of "a1"
C3_Witness ==
    /\ ev.handler = "add_movie_content"
    /\ ev.db = "upsert_movie"
    /\ ~ev.raised
    /\ ev.existed
    /\ ev.old = <<TextA1, "telegram", <<86>>>>
    /\ out = <<Reply("saved", <<TextA1, TextHttp, "link">>)>>
    /\ get_movie(movies, TextA1) = <<TextHttp, "link", TextHttp>>
    /\ Len(list_movies(movies)) = 2

\* C4: when the membership check yields not-member, a gated handler ends
\* there: it changes no session, writes and reads no record, and sends the
\* join prompt and nothing else
C4_Denied ==
    [][ /\ (/\ ev'.handler \in MessageHandlers \cup {"all_movies_cb"}
            /\ ev'.user # NoUser
            /\ ~Member(ev'.oc))
           => /\ sess' = sess
              /\ movies' = movies
              /\ ev'.db = ""
              /\ out' = IF ev'.handler = "all_movies_cb"
                        THEN <<Reply("join_prompt_list", <<>>), Reply("callback_answer", <<>>)>>
                        ELSE <<Reply("join_prompt", <<>>)>>
        /\ \A t \in TaskIds :
             tasks'[t].pc \in {"upsert_movie", "clear", "get_movie", "send_movie",
                               "list_movies", "send_list"}
             => Member(tasks'[t].oc) ]_vars

C4_Witness ==
    /\ ev.handler = "all_movies_cb"
    /\ ev.oc = Status("restricted", FALSE)
    /\ movies # {}
    /\ out = <<Reply("join_prompt_list", <<>>), Reply("callback_answer", <<>>)>>

\* C5: when get_chat_member raises, the decision is Denied, no exception leaves
\* the handler, and neither a session nor the store changes
C5_FailClosed ==
    [][ ev'.oc.raises
        => /\ ~ev'.ok
           /\ ~ev'.raised
           /\ sess' = sess
           /\ movies' = movies ]_vars

C5_Witness ==
    /\ ev.oc.raises
    /\ ev.handler = "add_movie_content"
    /\ sess[ev.user].state = AddMovie_content
    /\ ~ev.ok
    /\ ~ev.raised
    /\ out = <<Reply("join_prompt", <<>>)>>

\* C6: a member's message to the lookup whose trimmed text was never committed
\* as a code sends nothing; an empty trimmed text sends nothing and makes no
\* lookup; and no step of the lookup changes a session or the store
C6_Silent ==
    [][ /\ (/\ ev'.handler = "handle_codes"
            /\ ev'.user # NoUser
            /\ Member(ev'.oc))
           => /\ Trimmed(TextOf(ev'.msg)) \notin DOMAIN lastCommit
                 => /\ out' = <<>>
                    /\ ~ev'.raised
              /\ Trimmed(TextOf(ev'.msg)) = <<>>
                 => out' = <<>> /\ ev'.db = ""
        /\ \A t \in TaskIds :
             (Acts(t) /\ tasks[t].handler = "handle_codes")
             => /\ sess' = sess
                /\ movies' = movies
                /\ (/\ tasks[t].pc = "get_movie"
                    /\ Trimmed(TextOf(tasks[t].msg)) \notin DOMAIN lastCommit)
                   => tasks'[t].pc = "idle" /\ out' = <<>> ]_vars

C6_Witness ==
    /\ ev.handler = "handle_codes"
    /\ Member(ev.oc)
    /\ Trimmed(TextOf(ev.msg)) # <<>>
    /\ Trimmed(TextOf(ev.msg)) \notin DOMAIN lastCommit
    /\ movies # {}
    /\ ev.db = "get_movie"
    /\ out = <<>>

\* C7 as stated: a member's input to the content step that is neither a text
\* beginning, as sent, with http:// or https:// nor a video leaves the session
\* and the store as they are
C7_Original ==
    [][ (/\ ev'.handler = "add_movie_content"
         /\ Member(ev'.oc)
         /\ ~(ev'.msg.hasText /\ BeginsWithHttp(ev'.msg.text))
         /\ ~ev'.msg.hasVideo)
        => /\ sess' = sess
           /\ movies' = movies ]_vars

\* C7 amended: a member's input to the content step that is neither a text
\* beginning, once its surrounding whitespace is removed, with http:// or
\* https:// nor a video leaves the session as the step found it (in
\* AwaitingContent, draft code and title) and the store as it is, and the step
\* ends without an upsert
C7_Rejected ==
    [][ /\ (/\ ev'.handler = "add_movie_content"
            /\ Member(ev'.oc)
            /\ ~(ev'.msg.hasText /\ BeginsWithHttp(Trimmed(ev'.msg.text)))
            /\ ~ev'.msg.hasVideo)
           => /\ sess' = sess
              /\ movies' = movies
              /\ ev'.db = ""
        /\ \A t \in TaskIds :
             ReadsDrafts(t)
             => \/ tasks[t].msg.hasText /\ BeginsWithHttp(Trimmed(tasks[t].msg.text))
                \/ tasks[t].msg.hasVideo ]_vars

C7_Witness ==
    /\ ev.handler = "add_movie_content"
    /\ Member(ev.oc)
    /\ ev.msg.hasText
    /\ Trimmed(ev.msg.text) # <<>>
    /\ ~BeginsWithHttp(Trimmed(ev.msg.text))
    /\ sess[ev.user].state = AddMovie_content
    /\ DOMAIN sess[ev.user].data = {"code", "title"}
    /\ out = <<Reply("bad_content", <<>>)>>

\* the configured channel is a numeric id: a text that int() takes, an
\* optional sign and at most 4300 decimal digits with single underscores
\* between them
NumericId(cfg) ==
    LET digits == IF cfg[1] \in {43, 45} THEN Tail(cfg) ELSE cfg
    IN  /\ digits # <<>>
        /\ Cardinality({i \in 1..Len(digits) : digits[i] # 95}) <= 4300
        /\ \A i \in 1..Len(digits) :
              \/ IsDigit(digits[i])
              \/ /\ digits[i] = 95
                 /\ 1 < i
                 /\ i < Len(digits)
                 /\ IsDigit(digits[i - 1])
                 /\ IsDigit(digits[i + 1])

\* the chat is the configured channel: its id for a numeric CHANNEL_ID, its
\* username for an @username
ConfiguredChannel(cfg, chat) ==
    IF cfg[1] = 64 THEN chat.username = Tail(cfg) ELSE chat.id = IntValue(cfg)

\* C8 as stated: whatever the configured channel, numeric or @username, a join
\* request of another channel is ignored
C8_Original ==
    [][ (/\ ev'.handler = "on_join_request"
         /\ NumericId(CHANNEL_ID) \/ CHANNEL_ID[1] = 64
         /\ ~ConfiguredChannel(CHANNEL_ID, ev'.chat))
        => out' = <<>> ]_vars

\* C8 amended: for a numeric configured channel id of at most 4300 digits, a
\* join request of a chat with another id is ignored: no approve call, no
\* message to the user
C8_Numeric ==
    [][ (/\ ev'.handler = "on_join_request"
         /\ NumericId(CHANNEL_ID)
         /\ ~ConfiguredChannel(CHANNEL_ID, ev'.chat))
        => out' = <<>> ]_vars

\* the channel is configured as "1_0", and the request of chat 7 is ignored
C8_Witness ==
    /\ ev.handler = "on_join_request"
    /\ CHANNEL_ID = <<49, 95, 48>>
    /\ NumericId(CHANNEL_ID)
    /\ ev.chat.id = 7
    /\ out = <<>>

\* o is what renders the record (title, kind, payload): the title with the
\* link, or the title and then the video or its file id
Rendered(o, rec) ==
    IF rec[2] = "link"
    THEN o = <<Reply("movie_link", <<rec[1], rec[3]>>)>>
    ELSE /\ Len(o) = 2
         /\ o[1] = Reply("movie_found", <<rec[1]>>)
         /\ o[2] \in {Reply("video", <<rec[3], rec[1]>>), Reply("file_id", <<rec[3]>>)}

\* C9: a member's lookup finds a movie exactly when the trimmed text is a code
\* that was committed, compared with its case; what it finds is the title,
\* kind and payload of the last commit of that code, and what it then renders
\* is what it found
C9_Lookup ==
    [][ \A t \in TaskIds :
          /\ (tasks[t].pc = "get_movie" /\ Acts(t))
             => LET text == Trimmed(TextOf(tasks[t].msg))
                IN  /\ Member(tasks[t].oc)
                    /\ IF text \in DOMAIN lastCommit
                       THEN /\ tasks'[t].pc = "send_movie"
                            /\ tasks'[t].row = lastCommit[text]
                       ELSE /\ tasks'[t].pc = "idle"
                            /\ out' = <<>>
          /\ (tasks[t].pc = "send_movie" /\ Acts(t))
             => /\ tasks'[t].pc = "idle"
                /\ Rendered(out', tasks[t].row) ]_vars

\* "A1" was committed with a video, and a content step whose upsert has not
\* yet returned has replaced that with the link "http://x": the lookup of
\* " A1\u2003" renders the link, and not the row of "a1"
C9_Witness ==
    /\ ev.handler = "handle_codes"
    /\ Member(ev.oc)
    /\ ev.msg.text = TextPaddedA1
    /\ DOMAIN lastCommit = {TextA1, StoredRow.code}
    /\ lastCommit[TextA1][2] = "link"
    /\ lastCommit[TextA1][3] = TextHttp
    /\ \E t \in TaskIds : /\ tasks[t].pc = "clear"
                           /\ tasks[t].code = TextA1
                           /\ tasks[t].old # <<>>
                           /\ tasks[t].old[2] = "telegram"
                           /\ tasks[t].old[3] \in StoreFileIds
    /\ Rendered(out, lastCommit[TextA1])
    /\ out = <<Reply("movie_link", <<lastCommit[TextA1][1], TextHttp>>)>>

\* C10: a message of a user whose session is in a wizard state, when the
\* membership check yields not-member, leaves that session (state and data) as
\* it is, and with it the handler that the user's next message is routed to
C10_DeniedKeepsSession ==
    [][ \A u \in DOMAIN sess :
          (/\ ev'.user = u
           /\ ev'.handler \in MessageHandlers
           /\ sess[u].state # NoState
           /\ ~Member(ev'.oc))
          => /\ sess'[u] = sess[u]
             /\ \A m \in Messages : Dispatch(u, m)' = Dispatch(u, m) ]_vars

C10_Witness ==
    /\ ev.handler = "add_movie_title"
    /\ ~Member(ev.oc)
    /\ sess[ev.user].state = AddMovie_title
    /\ DOMAIN sess[ev.user].data = {"code"}
    /\ out = <<Reply("join_prompt", <<>>)>>

\* C11: the membership decision of every gated handler is true exactly when the
\* status is creator, administrator or member, or restricted with is_member
\* set; for left, kicked, restricted without the flag, an unknown status and a
\* failed query it is false.  A handler that ends reports its decision in ok;
\* a handler that goes on to the database has decided true
C11_Decision ==
    [][ /\ (/\ ev'.handler \in MessageHandlers \cup {"check_sub_cb", "all_movies_cb"}
            /\ ev'.user # NoUser)
           => /\ ev'.ok <=> Member(ev'.oc)
              /\ ev'.oc.status \in {"left", "kicked", "unknown"} => ~ev'.ok
              /\ (ev'.oc.status = "restricted" /\ ~ev'.oc.is_member) => ~ev'.ok
        /\ \A t \in TaskIds :
             (Acts(t) /\ tasks'[t].pc \notin {"idle", "require_subscribed", "is_subscribed"})
             => Member(tasks'[t].oc) ]_vars

C11_Witness ==
    /\ ev.handler = "add_movie_cmd"
    /\ ev.oc = Status("restricted", TRUE)
    /\ ev.ok
    /\ sess[ev.user].state = AddMovie_code
    /\ out = <<Reply("ask_code", <<>>)>>

\* the input is valid content: a text that, trimmed, begins with http:// or
\* https://, or a video
ValidContent(msg) == BeginsWithHttp(Trimmed(TextOf(msg))) \/ msg.hasVideo

\* C12: a member's content step with valid content goes to the upsert with the
\* drafts of the session and the session untouched; when the upsert fails, the
\* session is as it was, with its state and drafts, and so is the store; when
\* it succeeds, the record of the drafts is in the store while the session is
\* not yet cleared, and the session is cleared, None without data, only by a
\* step whose record has been stored
C12_UpsertThenClear ==
    [][ \A t \in TaskIds :
          LET u == tasks[t].user
          IN  /\ ReadsDrafts(t)
                 => /\ ValidContent(tasks[t].msg)
                    /\ tasks'[t].code = sess[u].data["code"]
                    /\ tasks'[t].title = sess[u].data["title"]
                    /\ sess' = sess
                    /\ movies' = movies
              /\ UpsertFails(t)
                 => /\ ev'.db = "upsert_movie"
                    /\ ev'.raised
                    /\ sess' = sess
                    /\ movies' = movies
              /\ Upserts(t)
                 => /\ \E r \in movies' : /\ r.code = tasks[t].code
                                           /\ r.title = tasks[t].title
                    /\ sess' = sess
              /\ Clears(t)
                 => /\ tasks[t].code \in {r.code : r \in movies}
                    /\ movies' = movies
                    /\ ~ev'.raised
                    /\ sess'[u].state = NoState
                    /\ DOMAIN sess'[u].data = {} ]_vars

C12_Witness ==
    /\ ev.handler = "add_movie_content"
    /\ Member(ev.oc)
    /\ ev.msg.hasVideo
    /\ ev.raised
    /\ ev.db = "upsert_movie"
    /\ sess[ev.user].state = AddMovie_content
    /\ DOMAIN sess[ev.user].data = {"code", "title"}
    /\ sess[ev.user].data["code"] \notin {r.code : r \in movies}
    /\ movies # {}

\* C13: sending a record of kind telegram that a lookup found never raises;
\* when answer_video fails, the file id is sent as a text after the title; when
\* it succeeds, the video is sent and no file id message
C13_VideoFallback ==
    [][ \A t \in TaskIds :
          (/\ tasks[t].pc = "send_movie"
           /\ Acts(t)
           /\ tasks[t].row[2] = "telegram")
          => LET rec == tasks[t].row
             IN  /\ ev'.handler = "handle_codes"
                 /\ ~ev'.raised
                 /\ ev'.video \in {"ok", "fail"}
                 /\ ev'.video = "fail"
                    => out' = <<Reply("movie_found", <<rec[1]>>), Reply("file_id", <<rec[3]>>)>>
                 /\ ev'.video = "ok"
                    => /\ out' = <<Reply("movie_found", <<rec[1]>>),
                                  Reply("video", <<rec[3], rec[1]>>)>>
                       /\ \A i \in 1..Len(out') : out'[i].msg # "file_id" ]_vars

C13_Witness ==
    /\ ev.handler = "handle_codes"
    /\ Member(ev.oc)
    /\ ev.video = "fail"
    /\ ~ev.raised
    /\ Len(out) = 2
    /\ out[2] = Reply("file_id", <<<<86>>>>)

\* the codes of the rows
Codes(rows) == {r.code : r \in rows}

\* C14: the store changes only in the upsert of a content step of a member,
\* with valid content; and every code stored before a step is stored after it
C14_StoreGrows ==
    [][ /\ movies' # movies
           => \E t \in TaskIds :
                 /\ Upserts(t)
                 /\ tasks[t].handler = "add_movie_content"
                 /\ tasks[t].user # NoUser
                 /\ Member(tasks[t].oc)
                 /\ ValidContent(tasks[t].msg)
        /\ Codes(movies) \subseteq Codes(movies') ]_vars

C14_Witness ==
    /\ ev.handler = "add_movie_content"
    /\ ev.db = "upsert_movie"
    /\ ~ev.raised
    /\ ~ev.existed
    /\ Cardinality(Codes(movies)) = 2
    /\ ev.msg.hasVideo

\* C15: a member's input to the title step whose text is empty once trimmed (a
\* message without text included) leaves the session as the step found it, in
\* AwaitingTitle; any other input stores the trimmed text as the draft title,
\* keeps the rest of the data, the draft code, and moves the session to
\* AwaitingContent
C15_Title ==
    [][ (/\ ev'.handler = "add_movie_title"
         /\ Member(ev'.oc))
        => LET u == ev'.user
               title == Trimmed(TextOf(ev'.msg))
           IN  /\ IF title = <<>>
                  THEN /\ sess' = sess
                       /\ out' = <<Reply("empty_title", <<>>)>>
                  ELSE /\ sess'[u].state = AddMovie_content
                       /\ DOMAIN sess'[u].data = DOMAIN sess[u].data \cup {"title"}
                       /\ sess'[u].data["title"] = title
                       /\ \A k \in DOMAIN sess[u].data \ {"title"} :
                             sess'[u].data[k] = sess[u].data[k]
               /\ movies' = movies ]_vars

C15_Witness ==
    /\ ev.handler = "add_movie_title"
    /\ Member(ev.oc)
    /\ ~ev.msg.hasText
    /\ ev.msg.hasVideo
    /\ sess[ev.user].state = AddMovie_title
    /\ DOMAIN sess[ev.user].data = {"code"}
    /\ out = <<Reply("empty_title", <<>>)>>

\* C16 as stated: under every interleaving, a content step that passed the
\* membership check finds the draft code and the draft title in the data of
\* the session: reading data["code"] and data["title"] does not raise
C16_DraftsPresent ==
    [][ \A t \in TaskIds :
          (/\ tasks[t].pc = "require_subscribed"
           /\ tasks[t].handler = "add_movie_content"
           /\ Acts(t)
           /\ Member(ev'.oc) \/ ev' = NoEvent)
          => /\ {"code", "title"} \subseteq DOMAIN sess[tasks[t].user].data
             /\ ~ev'.raised ]_vars

\* C17 as stated: a member's /kino puts the session in AwaitingCode whatever
\* state it was in; and a content step that goes on to write its record has
\* read the code and the title that the user sent, trimmed, since that /kino
C17_Restart ==
    [][ /\ (/\ ev'.handler \in MessageHandlers
            /\ ev'.user # NoUser
            /\ TextOf(ev'.msg) = KinoCommand
            /\ Member(ev'.oc))
           => /\ ev'.handler = "add_movie_cmd"
              /\ sess'[ev'.user].state = AddMovie_code
        /\ \A t \in TaskIds :
             ReadsDrafts(t)
             => LET u == tasks[t].user
                IN  /\ DOMAIN typed[u] = {"code", "title"}
                    /\ tasks'[t].code = Trimmed(typed[u]["code"])
                    /\ tasks'[t].title = Trimmed(typed[u]["title"]) ]_vars

\* the message is a text that is no command: it does not begin with "/"
NonCommandText(msg) ==
    /\ msg.hasText
    /\ Trimmed(msg.text) = <<>> \/ Trimmed(msg.text)[1] # 47

\* the step of the wizard that takes the input of a session state
StepOf(state) ==
    IF state = AddMovie_code THEN "add_movie_code"
    ELSE IF state = AddMovie_title THEN "add_movie_title"
    ELSE "add_movie_content"

WizardSteps == {"add_movie_code", "add_movie_title", "add_movie_content"}

\* C18: a user's text that is no command goes, when it arrives while the
\* session is in a wizard state, to the step of that state, and to the lookup
\* when it arrives while the session is None; no step of a wizard step makes a
\* lookup or renders a movie, and no step of the lookup changes a session or
\* the store
C18_OneHandler ==
    [][ \A t \in TaskIds :
          /\ (/\ tasks[t].pc = "idle"
              /\ tasks'[t].pc = "require_subscribed"
              /\ NonCommandText(tasks'[t].msg))
             => tasks'[t].handler = IF sess[tasks'[t].user].state = NoState
                                    THEN "handle_codes"
                                    ELSE StepOf(sess[tasks'[t].user].state)
          /\ (Acts(t) /\ tasks[t].handler \in WizardSteps)
             => /\ tasks'[t].pc \notin {"get_movie", "send_movie"}
                /\ ev'.db # "get_movie"
                /\ \A i \in 1..Len(out') :
                      out'[i].msg \notin {"movie_link", "movie_found", "video", "file_id"}
          /\ (Acts(t) /\ tasks[t].handler = "handle_codes")
             => /\ sess' = sess
                /\ movies' = movies ]_vars

C18_Witness ==
    /\ ev.handler = "add_movie_code"
    /\ Member(ev.oc)
    /\ ev.msg = TextMessage(TextA1)
    /\ TextA1 \in Codes(movies)
    /\ sess[ev.user].state = AddMovie_title
    /\ out = <<Reply("ask_title", <<>>)>>

\* what user 1 and user 2 submit for code "A1": user 1 the title "A1" with the
\* link "http://x", user 2 the title "https://x" with the video "V"
Submission(u) ==
    IF u = 1 THEN <<TextA1, "link", TextHttp>> ELSE <<TextHttps, "telegram", <<86>>>>

\* C19: with the content steps and lookups of two users interleaved at their
\* awaits, the store changes only when the upsert of a content step writes,
\* the record of the code is then the submission of that step's user in full,
\* and a lookup that renders the code renders the submission of one user in
\* full
C19_Whole ==
    [][ /\ movies' # movies => \E t \in TaskIds : Upserts(t)
        /\ \A t \in TaskIds :
             Upserts(t)
             => /\ get_movie(movies', TextA1) = Submission(tasks[t].user)
                /\ Cardinality(movies') = 1
        /\ (ev'.handler = "handle_codes" /\ out' # <<>> /\ Member(ev'.oc))
           => \E u \in TaskUsers : Rendered(out', Submission(u)) ]_vars

\* a lookup of user 1 read the record of user 1, user 2 then wrote its own,
\* and the lookup rendered what it had read
C19_Witness ==
    /\ ev.handler = "handle_codes"
    /\ ev.user = 1
    /\ Rendered(out, Submission(1))
    /\ get_movie(movies, TextA1) = Submission(2)
    /\ \A u \in TaskUsers : sess[u].state = NoState

\* C20: a step that does not end the handling of a message of user u leaves
\* the session of u, state and data, as it is: messages and callbacks of
\* another user, callbacks of u, join requests and steps that end no handler
C20_OwnMessages ==
    [][ \A u \in DOMAIN sess :
          (ev'.user # u \/ ev'.handler \notin MessageHandlers)
          => sess'[u] = sess[u] ]_vars

\* user 1 waits in AwaitingTitle while user 2 has run the wizard to its end
C20_Witness ==
    /\ sess[1].state = AddMovie_title
    /\ DOMAIN sess[1].data = {"code"}
    /\ ev.user = 2
    /\ ev.handler = "add_movie_content"
    /\ ev.db = "upsert_movie"
    /\ ~ev.raised
    /\ sess[2] = NoSession

====
